---- MODULE Spec2Model ----
(***************************************************************************)
(* A model of mcp-panther's alert tools (panther_mcp_core/tools/alerts.py) *)
(* and of the package initialisation that registers them                   *)
(* (panther_mcp_core/tools/__init__.py).                                   *)
(*                                                                         *)
(* The seven coroutines of alerts.py are translated statement by           *)
(* statement.  One invocation is three steps: Invoke runs the code up to   *)
(* the awaited client call (argument checks, parameter building, entering  *)
(* the client scope, sending the request), Respond is the remote           *)
(* endpoint's answer reaching the client, Finish leaves the client scope   *)
(* and runs the rest of the coroutine.  The registry (.registry.mcp_tool), *)
(* the REST client (..client.get_rest_client), the permission combinator   *)
(* (..permissions) and the dispatcher are not part of the two source files *)
(* and are modelled from the design document.                              *)
(***************************************************************************)
EXTENDS Integers, Sequences, FiniteSets, TLC

VARIABLES
    phase,       \* "loading" | "ready" | "fatal": the package import
    registry,    \* the names registered so far, in registration order
    loaded,      \* how many tools of alerts.py have been registered
    inv,         \* per caller: the invocation in progress
    openClients  \* the callers whose scoped REST client is open

vars == <<phase, registry, loaded, inv, openClients>>

(***************************************************************************)
(* Python values.  None, str, int, list and dict are kept apart so that    *)
(* truthiness, `is None` and isinstance are computed as Python does.       *)
(***************************************************************************)
PyNone == [t |-> "none"]
PyStr(s) == [t |-> "str", v |-> s]
PyInt(n) == [t |-> "int", v |-> n]
PyList(s) == [t |-> "list", v |-> s]
PyDict(d) == [t |-> "dict", v |-> d]

\* bool(x): None, "", 0 and [] are falsy
Truthy(x) ==
    CASE x.t = "none" -> FALSE
      [] x.t = "str" -> x.v # ""
      [] x.t = "int" -> x.v # 0
      [] x.t = "list" -> Len(x.v) > 0
      [] x.t = "dict" -> DOMAIN x.v # {}

IsNone(x) == x.t = "none"

\* a dict literal with no key, and d[k] = v
EmptyDict == [k \in {} |-> PyNone]
Put(d, k, v) == [x \in (DOMAIN d) \cup {k} |-> IF x = k THEN v ELSE d[x]]

\* raise <type>(<msg>); str(e) is e.msg
Raise(type, msg) == [raise |-> [type |-> type, msg |-> msg]]
IsRaise(r) == "raise" \in DOMAIN r

InSeq(x, s) == \E i \in 1..Len(s) : s[i] = x

\* the envelope of every failure return: {"success": False, "message": ...}
Failure(msg) == [success |-> FALSE, message |-> msg]

\* what a block of a coroutine hands on: an exception, a returned envelope,
\* or the request it is about to send
Return(env) == [ret |-> env]
IsReturn(r) == "ret" \in DOMAIN r

(***************************************************************************)
(* ..permissions (not in the source files): all_perms builds the set of    *)
(* permissions that must all be held.                                      *)
(***************************************************************************)
ALERT_READ == "ALERT_READ"
ALERT_MODIFY == "ALERT_MODIFY"
Permission == {ALERT_READ, ALERT_MODIFY}

all_perms(perms) == perms

authorize(requirement, granted) == requirement \subseteq granted

(***************************************************************************)
(* The decorators of alerts.py: the tools in definition order, and the     *)
(* "permissions" annotation of each.                                       *)
(***************************************************************************)
AlertsModuleTools ==
    << "list_alerts", "get_alert", "list_alert_comments",
       "update_alert_status", "add_alert_comment",
       "update_alert_assignee", "get_alert_events" >>

AlertsToolNames == {AlertsModuleTools[i] : i \in 1..Len(AlertsModuleTools)}

ListAlertsPermissions == all_perms({ALERT_READ})
GetAlertPermissions == all_perms({ALERT_READ})
ListAlertCommentsPermissions == all_perms({ALERT_READ})
\* variant: update_alert_status annotated with the read permission
UpdateAlertStatusPermissionsRead == all_perms({ALERT_READ})
UpdateAlertStatusPermissions == all_perms({ALERT_MODIFY})
AddAlertCommentPermissions == all_perms({ALERT_MODIFY})
UpdateAlertAssigneePermissions == all_perms({ALERT_MODIFY})
GetAlertEventsPermissions == all_perms({ALERT_READ})

Permissions(name) ==
    CASE name = "list_alerts" -> ListAlertsPermissions
      [] name = "get_alert" -> GetAlertPermissions
      [] name = "list_alert_comments" -> ListAlertCommentsPermissions
      [] name = "update_alert_status" -> UpdateAlertStatusPermissions
      [] name = "add_alert_comment" -> AddAlertCommentPermissions
      [] name = "update_alert_assignee" -> UpdateAlertAssigneePermissions
      [] name = "get_alert_events" -> GetAlertEventsPermissions

(***************************************************************************)
(* ..client (not in the source files).  A request is what the coroutine    *)
(* passes to client.get / client.post / client.patch; a call returns       *)
(* (body, status) for a status of expected_codes and raises otherwise.     *)
(***************************************************************************)
NoParams == PyNone

Request(method, path, params, json, expected) ==
    [method |-> method, path |-> path, params |-> params, json |-> json,
     expected_codes |-> expected]

ClientCall(expected_codes, outcome) ==
    IF outcome.kind = "transport"
    THEN Raise("TransportError", <<"request failed: ", outcome.why>>)
    ELSE IF outcome.status \in expected_codes
         THEN [body |-> outcome.body, status |-> outcome.status]
         ELSE Raise("UnexpectedStatus",
                    <<"unexpected status ", outcome.status>>)

\* _get_today_date_range(): the start and the end of the current UTC day
TodayStart == "today 00:00:00Z"
TodayEnd == "today 23:59:59Z"
get_today_date_range == <<TodayStart, TodayEnd>>

\* result.get(key, default) and len(x), with the errors Python raises for
\* a receiver that is no dict and an argument that has no length
HasGet(x) == x.t = "dict"
DictGet(d, key, default) == IF key \in DOMAIN d.v THEN d.v[key] ELSE default
NoGetError(x) ==
    Raise("AttributeError", <<x.t, " object has no attribute 'get'">>)
HasLen(x) == x.t \in {"list", "str", "dict"}
PyLen(x) == IF x.t = "dict" THEN Cardinality(DOMAIN x.v) ELSE Len(x.v)
NoLenError(x) == Raise("TypeError", <<"object of type ", x.t, " has no len()">>)

(***************************************************************************)
(* list_alerts                                                             *)
(***************************************************************************)
MaxPageSize == 50

valid_alert_types == <<"ALERT", "DETECTION_ERROR", "SYSTEM_ERROR">>

valid_subtypes(alert_type) ==
    CASE alert_type = "ALERT" -> <<"POLICY", "RULE", "SCHEDULED_RULE">>
      [] alert_type = "DETECTION_ERROR" -> <<"RULE_ERROR", "SCHEDULED_RULE_ERROR">>
      [] alert_type = "SYSTEM_ERROR" -> <<>>

\* variant: the page size is passed on as requested
ClampPageSizeNone(page_size) == page_size

\* "if page_size > 50: page_size = 50"
ClampPageSize(page_size) ==
    IF page_size > MaxPageSize THEN MaxPageSize ELSE page_size

\* variant: no check of page_size < 1
ListAlertsValidateNoSizeCheck(a) ==
    IF ~InSeq(a.alert_type, valid_alert_types)
    THEN Raise("ValueError",
               <<"alert_type must be one of ", valid_alert_types>>)
    ELSE IF Truthy(a.subtypes) /\ a.alert_type = "SYSTEM_ERROR"
    THEN Raise("ValueError",
               <<"subtypes are not allowed when alert_type is SYSTEM_ERROR">>)
    ELSE IF Truthy(a.subtypes)
            /\ SelectSeq(a.subtypes.v,
                  LAMBDA st : ~InSeq(st, valid_subtypes(a.alert_type))) # <<>>
    THEN Raise("ValueError",
               <<"Invalid subtypes ",
                 SelectSeq(a.subtypes.v,
                    LAMBDA st : ~InSeq(st, valid_subtypes(a.alert_type))),
                 " for alert_type=", a.alert_type,
                 ". Valid subtypes are: ", valid_subtypes(a.alert_type)>>)
    ELSE [ok |-> TRUE]

\* the checks of page_size, alert_type and subtypes: the exception raised,
\* or none
ListAlertsValidate(a) ==
    IF a.page_size < 1
    THEN Raise("ValueError", <<"page_size must be greater than 0">>)
    ELSE IF ~InSeq(a.alert_type, valid_alert_types)
    THEN Raise("ValueError",
               <<"alert_type must be one of ", valid_alert_types>>)
    ELSE IF Truthy(a.subtypes) /\ a.alert_type = "SYSTEM_ERROR"
    THEN Raise("ValueError",
               <<"subtypes are not allowed when alert_type is SYSTEM_ERROR">>)
    ELSE IF Truthy(a.subtypes)
            /\ SelectSeq(a.subtypes.v,
                  LAMBDA st : ~InSeq(st, valid_subtypes(a.alert_type))) # <<>>
    THEN Raise("ValueError",
               <<"Invalid subtypes ",
                 SelectSeq(a.subtypes.v,
                    LAMBDA st : ~InSeq(st, valid_subtypes(a.alert_type))),
                 " for alert_type=", a.alert_type,
                 ". Valid subtypes are: ", valid_subtypes(a.alert_type)>>)
    ELSE [ok |-> TRUE]

\* variant: the date range is added whether or not detection_id is given
RequiredFilterAdditive(params, a) ==
    LET start_date == IF ~Truthy(a.start_date)
                      THEN PyStr(get_today_date_range[1]) ELSE a.start_date
        end_date == IF ~Truthy(a.end_date)
                    THEN PyStr(get_today_date_range[2]) ELSE a.end_date
        dated == Put(Put(params, "created-after", start_date),
                     "created-before", end_date)
    IN  IF Truthy(a.detection_id)
        THEN Put(dated, "detection-id", a.detection_id)
        ELSE dated

\* "Handle the required filter: either detection-id OR date range"
RequiredFilter(params, a) ==
    IF Truthy(a.detection_id)
    THEN Put(params, "detection-id", a.detection_id)
    ELSE LET default_start_date == get_today_date_range[1]
             default_end_date == get_today_date_range[2]
             start_date == IF ~Truthy(a.start_date)
                           THEN PyStr(default_start_date) ELSE a.start_date
             end_date == IF ~Truthy(a.end_date)
                         THEN PyStr(default_end_date) ELSE a.end_date
         IN  Put(Put(params, "created-after", start_date),
                 "created-before", end_date)

\* "if cursor: ... params["cursor"] = cursor"
CursorFilter(params, cursor) ==
    IF Truthy(cursor) THEN Put(params, "cursor", cursor) ELSE params

\* "if x: params[key] = x" and "if x is not None: params[key] = x"
PutIfTruthy(params, key, x) == IF Truthy(x) THEN Put(params, key, x) ELSE params
PutIfNotNone(params, key, x) == IF ~IsNone(x) THEN Put(params, key, x) ELSE params

OptionalFilters(params, a) ==
    LET p1 == PutIfTruthy(params, "severity", a.severities)
        p2 == PutIfTruthy(p1, "status", a.statuses)
        p3 == PutIfNotNone(p2, "event-count-max", a.event_count_max)
        p4 == PutIfNotNone(p3, "event-count-min", a.event_count_min)
        p5 == PutIfTruthy(p4, "log-source", a.log_sources)
        p6 == PutIfTruthy(p5, "log-type", a.log_types)
        p7 == PutIfTruthy(p6, "name-contains", a.name_contains)
        p8 == PutIfTruthy(p7, "resource-type", a.resource_types)
    IN  PutIfTruthy(p8, "sub-type", a.subtypes)

ListAlertsExpected == {200, 400}

\* the try block up to the awaited client.get: the exception raised, or the
\* request sent
ListAlertsPrepare(a) ==
    IF IsRaise(ListAlertsValidate(a)) THEN ListAlertsValidate(a)
    ELSE LET page_size == ClampPageSize(a.page_size)
             p0 == Put(Put(Put(EmptyDict, "type", PyStr(a.alert_type)),
                           "limit", PyInt(page_size)),
                       "sort-dir", PyStr("desc"))
             p1 == RequiredFilter(p0, a)
         IN  IF Truthy(a.cursor) /\ a.cursor.t # "str"
             THEN Raise("ValueError",
                   <<"Cursor must be a string value from previous response's next">>)
             ELSE [send |-> Request("GET", <<"/alerts">>,
                               PyDict(OptionalFilters(CursorFilter(p1, a.cursor), a)),
                               PyNone, ListAlertsExpected)]

\* the rest of the try block, from the (result, status) the client returned
ListAlertsShape(a, result, status) ==
    IF status = 400
    THEN Return(Failure(<<"Bad request when fetching alerts">>))
    ELSE IF ~HasGet(result) THEN NoGetError(result)
    ELSE LET alerts == DictGet(result, "results", PyList(<<>>))
             next_cursor == DictGet(result, "next", PyNone)
         IN  IF ~HasLen(alerts) THEN NoLenError(alerts)
             ELSE Return([success |-> TRUE,
                          alerts |-> alerts,
                          total_alerts |-> PyInt(PyLen(alerts)),
                          has_next_page |-> ~IsNone(next_cursor),
                          has_previous_page |-> ~IsNone(a.cursor),
                          end_cursor |-> next_cursor,
                          start_cursor |-> a.cursor])

ListAlertsErrorPrefix == "Failed to fetch alerts: "

(***************************************************************************)
(* get_alert                                                               *)
(***************************************************************************)
GetAlertExpected == {200, 400, 404}

GetAlertPrepare(a) ==
    [send |-> Request("GET", <<"/alerts/", a.alert_id>>, NoParams, PyNone,
                      GetAlertExpected)]

\* variant: 404 is not told apart from 200
GetAlertShapeNo404Branch(a, alert_data, status) ==
    IF status = 400
    THEN Return(Failure(<<"Bad request when fetching alert ID: ", a.alert_id>>))
    ELSE Return([success |-> TRUE, alert |-> alert_data])

GetAlertShape(a, alert_data, status) ==
    IF status = 404
    THEN Return(Failure(<<"No alert found with ID: ", a.alert_id>>))
    ELSE IF status = 400
    THEN Return(Failure(<<"Bad request when fetching alert ID: ", a.alert_id>>))
    ELSE Return([success |-> TRUE, alert |-> alert_data])

GetAlertErrorPrefix == "Failed to fetch alert details: "

(***************************************************************************)
(* list_alert_comments                                                     *)
(***************************************************************************)
ListAlertCommentsExpected == {200, 400}

ListAlertCommentsPrepare(a) ==
    [send |-> Request("GET", <<"/alert-comments">>,
                      PyDict(Put(Put(EmptyDict, "alert-id", PyStr(a.alert_id)),
                                 "limit", PyInt(a.limit))),
                      PyNone, ListAlertCommentsExpected)]

ListAlertCommentsShape(a, result, status) ==
    IF status = 400
    THEN Return(Failure(<<"Bad request when fetching comments for alert ID: ",
                          a.alert_id>>))
    ELSE IF ~HasGet(result) THEN NoGetError(result)
    ELSE LET comments == DictGet(result, "results", PyList(<<>>))
         IN  IF ~HasLen(comments) THEN NoLenError(comments)
             ELSE Return([success |-> TRUE,
                          comments |-> comments,
                          total_comments |-> PyInt(PyLen(comments))])

ListAlertCommentsErrorPrefix == "Failed to fetch alert comments: "

(***************************************************************************)
(* update_alert_status                                                     *)
(***************************************************************************)
valid_statuses == <<"OPEN", "TRIAGED", "RESOLVED", "CLOSED">>

UpdateAlertStatusExpected == {204, 400, 404}

\* variant: the status is sent unchecked
UpdateAlertStatusPrepareUnchecked(a) ==
    [send |-> Request("PATCH", <<"/alerts">>, NoParams,
                      PyDict(Put(Put(EmptyDict, "ids", PyList(a.alert_ids)),
                                 "status", PyStr(a.status))),
                      UpdateAlertStatusExpected)]

UpdateAlertStatusPrepare(a) ==
    IF ~InSeq(a.status, valid_statuses)
    THEN Raise("ValueError", <<"Status must be one of ", valid_statuses>>)
    ELSE [send |-> Request("PATCH", <<"/alerts">>, NoParams,
                      PyDict(Put(Put(EmptyDict, "ids", PyList(a.alert_ids)),
                                 "status", PyStr(a.status))),
                      UpdateAlertStatusExpected)]

\* variant: the success return also carries a message
UpdateAlertStatusShapeWithMessage(a, result, status_code) ==
    IF status_code = 404
    THEN Return(Failure(<<"One or more alerts not found: ", a.alert_ids>>))
    ELSE IF status_code = 400
    THEN Return(Failure(<<"Bad request when updating alert status: ",
                          a.alert_ids>>))
    ELSE Return([success |-> TRUE, alerts |-> PyList(a.alert_ids),
                 message |-> <<"Successfully updated alerts">>])

UpdateAlertStatusShape(a, result, status_code) ==
    IF status_code = 404
    THEN Return(Failure(<<"One or more alerts not found: ", a.alert_ids>>))
    ELSE IF status_code = 400
    THEN Return(Failure(<<"Bad request when updating alert status: ",
                          a.alert_ids>>))
    ELSE Return([success |-> TRUE, alerts |-> PyList(a.alert_ids)])

UpdateAlertStatusErrorPrefix == "Failed to update alert status: "

(***************************************************************************)
(* add_alert_comment                                                       *)
(***************************************************************************)
AddAlertCommentExpected == {200, 400, 404}

AddAlertCommentPrepare(a) ==
    [send |-> Request("POST", <<"/alert-comments">>, NoParams,
                      PyDict(Put(Put(Put(EmptyDict, "alertId", PyStr(a.alert_id)),
                                     "body", PyStr(a.comment)),
                                 "format", PyStr("PLAIN_TEXT"))),
                      AddAlertCommentExpected)]

AddAlertCommentShape(a, comment_data, status) ==
    IF status = 404
    THEN Return(Failure(<<"Alert not found: ", a.alert_id>>))
    ELSE IF status = 400
    THEN Return(Failure(<<"Bad request when adding comment to alert ",
                          a.alert_id>>))
    ELSE Return([success |-> TRUE, comment |-> comment_data])

AddAlertCommentErrorPrefix == "Failed to add alert comment: "

(***************************************************************************)
(* update_alert_assignee                                                   *)
(***************************************************************************)
UpdateAlertAssigneeExpected == {204, 400, 404}

UpdateAlertAssigneePrepare(a) ==
    [send |-> Request("PATCH", <<"/alerts">>, NoParams,
                      PyDict(Put(Put(EmptyDict, "ids", PyList(a.alert_ids)),
                                 "assignee", PyStr(a.assignee_id))),
                      UpdateAlertAssigneeExpected)]

UpdateAlertAssigneeShape(a, result, status) ==
    IF status = 404
    THEN Return(Failure(<<"One or more alerts not found: ", a.alert_ids>>))
    ELSE IF status = 400
    THEN Return(Failure(<<"Bad request when updating alert assignee: ",
                          a.alert_ids>>))
    ELSE Return([success |-> TRUE, alerts |-> PyList(a.alert_ids)])

UpdateAlertAssigneeErrorPrefix == "Failed to update alert assignee: "

(***************************************************************************)
(* get_alert_events                                                        *)
(***************************************************************************)
max_limit == 10

\* "if limit > max_limit: limit = max_limit"
ClampLimit(limit) == IF limit > max_limit THEN max_limit ELSE limit

\* variant: get_alert_events also expecting 400
GetAlertEventsExpectedWith400 == {200, 400, 404}
GetAlertEventsExpected == {200, 404}

GetAlertEventsPrepare(a) ==
    IF a.limit < 1
    THEN Raise("ValueError", <<"limit must be greater than 0">>)
    ELSE [send |-> Request("GET", <<"/alerts/", a.alert_id, "/events">>,
                      PyDict(Put(EmptyDict, "limit", PyInt(ClampLimit(a.limit)))),
                      PyNone, GetAlertEventsExpected)]

\* the 404 return is taken inside the client scope, the rest after it
GetAlertEventsShape(a, result, status) ==
    IF status = 404
    THEN Return(Failure(<<"No alert found with ID: ", a.alert_id>>))
    ELSE IF ~HasGet(result) THEN NoGetError(result)
    ELSE LET events == DictGet(result, "results", PyList(<<>>))
         IN  IF ~HasLen(events) THEN NoLenError(events)
             ELSE Return([success |-> TRUE,
                          events |-> events,
                          total_events |-> PyInt(PyLen(events))])

GetAlertEventsErrorPrefix == "Failed to fetch alert events: "

(***************************************************************************)
(* The coroutines by name, and the "except Exception" clause that closes   *)
(* the try block of each.                                                  *)
(***************************************************************************)
Prepare(name, a) ==
    CASE name = "list_alerts" -> ListAlertsPrepare(a)
      [] name = "get_alert" -> GetAlertPrepare(a)
      [] name = "list_alert_comments" -> ListAlertCommentsPrepare(a)
      [] name = "update_alert_status" -> UpdateAlertStatusPrepare(a)
      [] name = "add_alert_comment" -> AddAlertCommentPrepare(a)
      [] name = "update_alert_assignee" -> UpdateAlertAssigneePrepare(a)
      [] name = "get_alert_events" -> GetAlertEventsPrepare(a)

Shape(name, a, body, status) ==
    CASE name = "list_alerts" -> ListAlertsShape(a, body, status)
      [] name = "get_alert" -> GetAlertShape(a, body, status)
      [] name = "list_alert_comments" -> ListAlertCommentsShape(a, body, status)
      [] name = "update_alert_status" -> UpdateAlertStatusShape(a, body, status)
      [] name = "add_alert_comment" -> AddAlertCommentShape(a, body, status)
      [] name = "update_alert_assignee" -> UpdateAlertAssigneeShape(a, body, status)
      [] name = "get_alert_events" -> GetAlertEventsShape(a, body, status)

ErrorPrefix(name) ==
    CASE name = "list_alerts" -> ListAlertsErrorPrefix
      [] name = "get_alert" -> GetAlertErrorPrefix
      [] name = "list_alert_comments" -> ListAlertCommentsErrorPrefix
      [] name = "update_alert_status" -> UpdateAlertStatusErrorPrefix
      [] name = "add_alert_comment" -> AddAlertCommentErrorPrefix
      [] name = "update_alert_assignee" -> UpdateAlertAssigneeErrorPrefix
      [] name = "get_alert_events" -> GetAlertEventsErrorPrefix

\* the exception classes that derive from Exception
ExceptionTypes ==
    {"ValueError", "AttributeError", "TypeError", "UnexpectedStatus",
     "TransportError"}

\* variant: "except ValueError as e"
CaughtValueError(e) == e.type = "ValueError"

\* "except Exception as e" matches
Caught(e) == e.type \in ExceptionTypes

\* try: <block> except Exception as e: return {"success": False,
\*                                             "message": f"<prefix>{str(e)}"}
TryExcept(name, r) ==
    IF IsRaise(r) /\ Caught(r.raise)
    THEN Return(Failure(<<ErrorPrefix(name)>> \o r.raise.msg))
    ELSE r

(***************************************************************************)
(* The registry and the dispatcher (not in the source files).              *)
(***************************************************************************)
Descriptor(name, module, permissions) ==
    [name |-> name, module |-> module, permissions |-> permissions]

RegisteredNames == {registry[i].name : i \in 1..Len(registry)}

\* variant: a registry that accepts a name it already holds
CanRegisterAlways(name) == TRUE

\* register: fatal when the name is already there
CanRegister(name) == name \notin RegisteredNames

lookup(name) == CHOOSE i \in 1..Len(registry) : registry[i].name = name

\* steps 1 and 2 of invoke: the failure envelope of an unknown operation or a
\* missing permission, or none
Gate(name, granted) ==
    IF name \notin RegisteredNames
    THEN Return(Failure(<<"no such operation: ", name>>))
    ELSE IF ~authorize(registry[lookup(name)].permissions, granted)
    THEN Return(Failure(<<"permission denied: requires ",
                          registry[lookup(name)].permissions>>))
    ELSE [ok |-> TRUE]

\* step 4 of invoke: an error the operation raised becomes a failure envelope
CatchAll(r) == IF IsRaise(r) THEN Failure(r.raise.msg) ELSE r.ret

(***************************************************************************)
(* State.                                                                  *)
(***************************************************************************)
Callers == {"c1"}

Idle == [pc |-> "idle"]

Pending == [pending |-> TRUE]

Init ==
    /\ phase = "loading"
    /\ registry = <<>>
    /\ loaded = 0
    /\ inv = [p \in Callers |-> Idle]
    /\ openClients = {}

(***************************************************************************)
(* Package import: "from . import alerts, data_lake, ..." runs the         *)
(* decorators of alerts.py first, then those of the other modules.         *)
(***************************************************************************)
Register(d) ==
    IF CanRegister(d.name)
    THEN /\ registry' = Append(registry, d)
         /\ phase' = phase
    ELSE /\ phase' = "fatal"
         /\ registry' = registry

LoadAlertsTool ==
    /\ phase = "loading"
    /\ loaded < Len(AlertsModuleTools)
    /\ loaded' = loaded + 1
    /\ Register(Descriptor(AlertsModuleTools[loaded + 1], "alerts",
                           Permissions(AlertsModuleTools[loaded + 1])))
    /\ UNCHANGED <<inv, openClients>>

\* the tools the modules imported after alerts may register
MaxOtherTools == 1
OtherToolNames == {"list_rules", "get_alert"}

LoadOtherTool(name) ==
    /\ phase = "loading"
    /\ loaded = Len(AlertsModuleTools)
    /\ Len(registry) - loaded < MaxOtherTools
    /\ Register(Descriptor(name, "other", {}))
    /\ UNCHANGED <<loaded, inv, openClients>>

\* the import has finished: the server starts to dispatch
FinishLoading ==
    /\ phase = "loading"
    /\ loaded = Len(AlertsModuleTools)
    /\ phase' = "ready"
    /\ UNCHANGED <<registry, loaded, inv, openClients>>

(***************************************************************************)
(* One invocation.                                                         *)
(***************************************************************************)
Finished(name, a, granted, executed, opened, sent, outcome, result) ==
    [pc |-> "done", name |-> name, args |-> a, granted |-> granted,
     executed |-> executed, opened |-> opened, sent |-> sent,
     outcome |-> outcome,
     result |-> result, envelope |-> CatchAll(result)]

(***************************************************************************)
(* "async with get_rest_client() as client": the scope is entered before   *)
(* the call and left by the end of the block, by a return inside it        *)
(* (get_alert_events on 404) or by an exception of the call.  The context  *)
(* manager itself is part of ..client: entering it takes a client for the  *)
(* caller, leaving it gives that client back.                              *)
(***************************************************************************)
AcquireClient(clients, p) == clients \cup {p}
ReleaseClient(clients, p) == clients \ {p}

\* how the block is left once the call has returned or raised
ScopeExit(name, call) ==
    IF IsRaise(call) THEN "raise"
    ELSE IF name = "get_alert_events" /\ call.status = 404 THEN "return"
    ELSE "end"

\* variant: the client is closed by a statement at the end of the block,
\* which a return or an exception skips
ExitClosesClientAtEndOnly(exit) == exit = "end"

\* "async with" leaves the scope, and so closes the client, on every exit
ExitClosesClient(exit) == exit \in {"end", "return", "raise"}

\* variant: the call is issued again after a transport failure
CallsAgainOnTransportError(name, call) ==
    IsRaise(call) /\ call.raise.type = "TransportError"

\* whether the coroutine issues its client call again once the call has
\* returned or raised: each try block awaits the call once, outside any loop
CallsAgain(name, call) == FALSE

\* invoke(name, arguments, granted): the gate, then the coroutine up to its
\* awaited client call
Invoke(p, name, a, granted) ==
    /\ phase = "ready"
    /\ inv[p].pc = "idle"
    /\ LET gate == Gate(name, granted)
           prep == TryExcept(name, Prepare(name, a))
       IN  IF IsReturn(gate)
           THEN /\ inv' = [inv EXCEPT ![p] =
                      Finished(name, a, granted, FALSE, 0, <<>>, Pending, gate)]
                /\ UNCHANGED openClients
           ELSE IF IsReturn(prep) \/ IsRaise(prep)
           THEN /\ inv' = [inv EXCEPT ![p] =
                      Finished(name, a, granted, TRUE, 0, <<>>, Pending, prep)]
                /\ UNCHANGED openClients
           ELSE /\ inv' = [inv EXCEPT ![p] =
                      [pc |-> "awaiting", name |-> name, args |-> a,
                       granted |-> granted, executed |-> TRUE,
                       opened |-> 1, sent |-> <<prep.send>>]]
                /\ openClients' = AcquireClient(openClients, p)
    /\ UNCHANGED <<phase, registry, loaded>>

\* the remote endpoint answers, or the transport fails: the awaited call
\* returns (body, status) or raises, still inside the client scope
Respond(p, outcome) ==
    /\ inv[p].pc = "awaiting"
    /\ LET c == inv[p]
           call == ClientCall(c.sent[Len(c.sent)].expected_codes, outcome)
       IN  IF CallsAgain(c.name, call)
           THEN inv' = [inv EXCEPT ![p].sent = Append(@, @[Len(@)])]
           ELSE inv' = [inv EXCEPT ![p] =
                   [pc |-> "closing", name |-> c.name, args |-> c.args,
                    granted |-> c.granted, executed |-> TRUE,
                    opened |-> c.opened, sent |-> c.sent,
                    outcome |-> outcome, call |-> call]]
    /\ UNCHANGED <<phase, registry, loaded, openClients>>

\* the client scope is left (by the end of the block, a return or an
\* exception) and the coroutine runs to its return
Finish(p) ==
    /\ inv[p].pc = "closing"
    /\ LET c == inv[p]
           r == TryExcept(c.name,
                    IF IsRaise(c.call) THEN c.call
                    ELSE Shape(c.name, c.args, c.call.body, c.call.status))
       IN  /\ inv' = [inv EXCEPT ![p] =
                 Finished(c.name, c.args, c.granted, TRUE, c.opened, c.sent,
                          c.outcome, r)]
           /\ openClients' =
                 IF ExitClosesClient(ScopeExit(c.name, c.call))
                 THEN ReleaseClient(openClients, p)
                 ELSE openClients
    /\ UNCHANGED <<phase, registry, loaded>>

\* the caller takes the envelope
Complete(p) ==
    /\ inv[p].pc = "done"
    /\ inv' = [inv EXCEPT ![p] = Idle]
    /\ UNCHANGED <<phase, registry, loaded, openClients>>

(***************************************************************************)
(* Inputs.                                                                 *)
(***************************************************************************)
PageSizes == {-1, 0, 1, 50, 51, 1000}
Limits == {-1, 0, 1, 10, 11, 1000}
AlertIds == {"a-1"}
AlertIdLists == {<<"a-1">>, <<"a-1", "a-2">>}

DefaultSeverities == PyList(<<"CRITICAL", "HIGH", "MEDIUM", "LOW">>)
DefaultStatuses == PyList(<<"OPEN", "TRIAGED", "RESOLVED", "CLOSED">>)

ListAlertsArgs ==
    [start_date : {PyNone, PyStr("2024-03-20T00:00:00Z")},
     end_date : {PyNone, PyStr("2024-03-21T00:00:00Z")},
     severities : {DefaultSeverities},
     statuses : {DefaultStatuses},
     cursor : {PyNone, PyStr(""), PyStr("c1"), PyInt(7)},
     detection_id : {PyNone, PyStr(""), PyStr("d-1")},
     event_count_max : {PyNone},
     event_count_min : {PyNone},
     log_sources : {PyList(<<>>)},
     log_types : {PyList(<<>>)},
     name_contains : {PyNone},
     page_size : PageSizes,
     resource_types : {PyList(<<>>)},
     subtypes : {PyList(<<>>), PyList(<<"RULE">>), PyList(<<"RULE_ERROR">>)},
     alert_type : {"ALERT", "DETECTION_ERROR", "SYSTEM_ERROR", "INFO"}]

ArgsOf(name) ==
    CASE name = "list_alerts" -> ListAlertsArgs
      [] name = "get_alert" -> [alert_id : AlertIds]
      [] name = "list_alert_comments" -> [alert_id : AlertIds, limit : Limits]
      [] name = "update_alert_status" ->
            [alert_ids : AlertIdLists, status : {"OPEN", "CLOSED", "DONE"}]
      [] name = "add_alert_comment" -> [alert_id : AlertIds, comment : {"looks benign"}]
      [] name = "update_alert_assignee" ->
            [alert_ids : AlertIdLists, assignee_id : {"u-1"}]
      [] name = "get_alert_events" -> [alert_id : AlertIds, limit : Limits]
      [] OTHER -> {[none |-> TRUE]}

InvokeNames == AlertsToolNames \cup {"list_detections"}

Statuses == {200, 204, 400, 404, 500}

Bodies ==
    {PyNone,
     PyStr("<html>"),
     PyDict(EmptyDict),
     PyDict([results |-> PyNone]),
     PyDict([results |-> PyList(<<"a-1">>), next |-> PyNone]),
     PyDict([results |-> PyList(<<"a-1", "a-2">>), next |-> PyStr("c1")])}

Outcomes ==
    {[kind |-> "transport", why |-> "timeout"]}
    \cup [kind : {"http"}, status : Statuses, body : Bodies]

Next ==
    \/ LoadAlertsTool
    \/ \E name \in OtherToolNames : LoadOtherTool(name)
    \/ FinishLoading
    \/ \E p \in Callers :
          /\ phase = "ready"
          /\ inv[p].pc = "idle"
          /\ \E name \in InvokeNames, granted \in SUBSET Permission :
                \E a \in ArgsOf(name) : Invoke(p, name, a, granted)
    \/ \E p \in Callers :
          /\ inv[p].pc = "awaiting"
          /\ \E outcome \in Outcomes : Respond(p, outcome)
    \/ \E p \in Callers : Finish(p)
    \/ \E p \in Callers : Complete(p)

\* one caller at a time, over the full set of inputs
Spec == Init /\ [][Next]_vars

(***************************************************************************)
(* Two callers at once.  The coroutines are scheduled cooperatively: each  *)
(* runs without interruption between its awaits, so an invocation of one   *)
(* caller may start, be answered or finish while the other's is waiting.   *)
(* The inputs are a few per operation.                                     *)
(***************************************************************************)
ConcurrentCallers == {"c1", "c2"}

DefaultListAlertsArgs ==
    [start_date |-> PyNone, end_date |-> PyNone,
     severities |-> DefaultSeverities, statuses |-> DefaultStatuses,
     cursor |-> PyNone, detection_id |-> PyNone,
     event_count_max |-> PyNone, event_count_min |-> PyNone,
     log_sources |-> PyList(<<>>), log_types |-> PyList(<<>>),
     name_contains |-> PyNone, page_size |-> 25,
     resource_types |-> PyList(<<>>), subtypes |-> PyList(<<>>),
     alert_type |-> "ALERT"]

ConcurrentArgsOf(name) ==
    CASE name = "list_alerts" ->
            {DefaultListAlertsArgs,
             [DefaultListAlertsArgs EXCEPT !.alert_type = "INFO"]}
      [] name = "get_alert" -> [alert_id : AlertIds]
      [] name = "list_alert_comments" -> [alert_id : AlertIds, limit : {25}]
      [] name = "update_alert_status" ->
            [alert_ids : {<<"a-1">>}, status : {"CLOSED", "DONE"}]
      [] name = "add_alert_comment" -> [alert_id : AlertIds, comment : {"looks benign"}]
      [] name = "update_alert_assignee" ->
            [alert_ids : {<<"a-1">>}, assignee_id : {"u-1"}]
      [] name = "get_alert_events" -> [alert_id : AlertIds, limit : {0, 10}]

ConcurrentOutcomes ==
    {[kind |-> "transport", why |-> "timeout"],
     [kind |-> "http", status |-> 200,
      body |-> PyDict([results |-> PyList(<<"a-1">>), next |-> PyNone])],
     [kind |-> "http", status |-> 204, body |-> PyNone],
     [kind |-> "http", status |-> 404, body |-> PyNone],
     [kind |-> "http", status |-> 500, body |-> PyStr("<html>")]}

InitConcurrent ==
    /\ phase = "loading"
    /\ registry = <<>>
    /\ loaded = 0
    /\ inv = [p \in ConcurrentCallers |-> Idle]
    /\ openClients = {}

NextConcurrent ==
    \/ LoadAlertsTool
    \/ FinishLoading
    \/ \E p \in ConcurrentCallers :
          /\ phase = "ready"
          /\ inv[p].pc = "idle"
          /\ \E name \in AlertsToolNames,
                granted \in {{}, {ALERT_READ, ALERT_MODIFY}} :
                \E a \in ConcurrentArgsOf(name) : Invoke(p, name, a, granted)
    \/ \E p \in ConcurrentCallers :
          /\ inv[p].pc = "awaiting"
          /\ \E outcome \in ConcurrentOutcomes : Respond(p, outcome)
    \/ \E p \in ConcurrentCallers : Finish(p)
    \/ \E p \in ConcurrentCallers : Complete(p)

SpecConcurrent == InitConcurrent /\ [][NextConcurrent]_vars

(***************************************************************************)
(* Properties.                                                             *)
(***************************************************************************)
Started(p) == inv[p].pc # "idle"
Done(p) == inv[p].pc = "done"
Ran(p, name) == Started(p) /\ inv[p].executed /\ inv[p].name = name
HasSent(p) == Started(p) /\ Len(inv[p].sent) > 0
SentParams(p) == inv[p].sent[1].params.v

\* an envelope is a success with a payload and no message, or a failure with
\* a message and nothing else
IsSuccessEnvelope(e) ==
    /\ e.success = TRUE
    /\ "message" \notin DOMAIN e
    /\ (DOMAIN e) \ {"success"} # {}
IsFailureEnvelope(e) ==
    /\ e.success = FALSE
    /\ DOMAIN e = {"success", "message"}
    /\ Len(e.message) > 0

\* C1: every envelope one of the seven operations returns is either a
\* success with a payload field and no message, or a failure with a message
\* and no payload field, never both and never neither.
EnvelopeExclusive ==
    \A p \in DOMAIN inv :
        (Done(p) /\ inv[p].name \in AlertsToolNames) =>
            /\ IsReturn(inv[p].result)
            /\ IsSuccessEnvelope(inv[p].result.ret)
                  # IsFailureEnvelope(inv[p].result.ret)
            /\ inv[p].envelope = inv[p].result.ret

\* C1 witness: a PATCH answered 204 has returned its success envelope.
EnvelopeSuccessReached ==
    \E p \in DOMAIN inv :
        /\ Done(p)
        /\ inv[p].name = "update_alert_status"
        /\ HasSent(p)
        /\ inv[p].outcome.kind = "http"
        /\ inv[p].outcome.status = 204
        /\ IsSuccessEnvelope(inv[p].envelope)

\* the capability each operation is documented to need
RequiredCapability(name) ==
    IF name \in {"update_alert_status", "add_alert_comment",
                 "update_alert_assignee"}
    THEN {"ALERT_MODIFY"} ELSE {"ALERT_READ"}

\* C2: an invocation of an operation runs the operation exactly when the
\* caller's granted set holds the operation's required capabilities; when it
\* does not, the envelope is a failure, no request was sent and no client
\* was opened.
AuthorizationGating ==
    \A p \in DOMAIN inv :
        (Started(p) /\ inv[p].name \in AlertsToolNames) =>
            /\ inv[p].executed
                  <=> (RequiredCapability(inv[p].name) \subseteq inv[p].granted)
            /\ ~(RequiredCapability(inv[p].name) \subseteq inv[p].granted) =>
                  /\ Done(p)
                  /\ IsFailureEnvelope(inv[p].envelope)
                  /\ inv[p].sent = <<>>
                  /\ inv[p].opened = 0
                  /\ p \notin openClients

\* C2 witness: update_alert_status on ["a-1"] by a caller who may only read
\* has ended without running.
DeniedUpdateReached ==
    \E p \in DOMAIN inv :
        /\ Done(p)
        /\ inv[p].name = "update_alert_status"
        /\ inv[p].args.alert_ids = <<"a-1">>
        /\ inv[p].granted = {"ALERT_READ"}
        /\ ~inv[p].executed
        /\ inv[p].sent = <<>>

\* C3: whenever a dispatch can happen or has happened, the import has
\* finished without a fatal error and no two descriptors of the registry
\* share a name; after a rejected duplicate nothing is ever dispatched.
RegistryNamesUnique ==
    /\ (phase = "ready" \/ \E p \in DOMAIN inv : Started(p)) =>
          /\ phase = "ready"
          /\ \A i, j \in 1..Len(registry) :
                registry[i].name = registry[j].name => i = j
    /\ phase = "fatal" => \A p \in DOMAIN inv : ~Started(p)

\* C3 witness: a module registered a name alerts.py had registered, and the
\* import ended fatally.
DuplicateRejectedReached ==
    /\ phase = "fatal"
    /\ Len(registry) = Len(AlertsModuleTools)

\* the expected-status list each operation passes to the client
ExpectedStatuses(name) ==
    CASE name = "list_alerts" -> {200, 400}
      [] name = "get_alert" -> {200, 400, 404}
      [] name = "list_alert_comments" -> {200, 400}
      [] name = "update_alert_status" -> {204, 400, 404}
      [] name = "add_alert_comment" -> {200, 400, 404}
      [] name = "update_alert_assignee" -> {204, 400, 404}
      [] name = "get_alert_events" -> {200, 404}

\* C4: a response of status s reaches the operation as (body, s) exactly
\* when s is in the operation's expected list, and as an UnexpectedStatus
\* error exactly when it is not.
StatusClassification ==
    \A p \in DOMAIN inv :
        (inv[p].pc = "closing" /\ inv[p].outcome.kind = "http") =>
            LET s == inv[p].outcome.status
                E == ExpectedStatuses(inv[p].name)
            IN  /\ inv[p].sent[1].expected_codes = E
                /\ s \in E <=> ~IsRaise(inv[p].call)
                /\ s \in E =>
                      /\ inv[p].call.status = s
                      /\ inv[p].call.body = inv[p].outcome.body
                /\ s \notin E <=>
                      (IsRaise(inv[p].call)
                       /\ inv[p].call.raise.type = "UnexpectedStatus")

\* C4 witness: a 404 answer to list_alerts, whose list is [200, 400], was
\* raised as UnexpectedStatus.
UnexpectedStatusReached ==
    \E p \in DOMAIN inv :
        /\ inv[p].pc = "closing"
        /\ inv[p].name = "list_alerts"
        /\ inv[p].outcome.kind = "http"
        /\ inv[p].outcome.status = 404
        /\ IsRaise(inv[p].call)

\* C5: in list_alerts a cursor the caller supplied goes out verbatim as the
\* cursor parameter and the envelope then reports has_previous_page = true;
\* without a cursor no cursor parameter goes out and has_previous_page is
\* false; end_cursor is the response's next, unchanged.
PaginationRoundTrip ==
    \A p \in DOMAIN inv :
        Ran(p, "list_alerts") =>
            LET cursor == inv[p].args.cursor
            IN  /\ HasSent(p) =>
                      IF ~IsNone(cursor)
                      THEN /\ "cursor" \in DOMAIN SentParams(p)
                           /\ SentParams(p)["cursor"] = cursor
                      ELSE "cursor" \notin DOMAIN SentParams(p)
                /\ (Done(p) /\ inv[p].envelope.success) =>
                      /\ inv[p].envelope.has_previous_page = ~IsNone(cursor)
                      /\ inv[p].envelope.end_cursor
                            = DictGet(inv[p].outcome.body, "next", PyNone)

\* the other arguments of list_alerts pass its checks
TypeAndSubtypesValid(a) ==
    /\ a.alert_type \in {"ALERT", "DETECTION_ERROR", "SYSTEM_ERROR"}
    /\ \A i \in 1..Len(a.subtypes.v) :
          \/ a.alert_type = "ALERT"
             /\ a.subtypes.v[i] \in {"POLICY", "RULE", "SCHEDULED_RULE"}
          \/ a.alert_type = "DETECTION_ERROR"
             /\ a.subtypes.v[i] \in {"RULE_ERROR", "SCHEDULED_RULE_ERROR"}
CursorValid(a) == a.cursor.t \in {"none", "str"}

\* a response the operation can shape: 200 with a JSON object whose results,
\* if any, are a list
GoodResponse(o) ==
    /\ o.kind = "http"
    /\ o.status = 200
    /\ o.body.t = "dict"
    /\ "results" \in DOMAIN o.body.v => o.body.v["results"].t = "list"

\* C6: a list_alerts call asking for more than 50 results per page still
\* sends its request, with limit = 50, and succeeds when the endpoint
\* answers 200; a get_alert_events call asking for more than 10 events sends
\* limit = 10.
ClampAboveMaximum ==
    \A p \in DOMAIN inv :
        /\ (Ran(p, "list_alerts") /\ inv[p].args.page_size > 50
            /\ TypeAndSubtypesValid(inv[p].args) /\ CursorValid(inv[p].args)) =>
              /\ HasSent(p)
              /\ SentParams(p)["limit"] = PyInt(50)
              /\ (Done(p) /\ GoodResponse(inv[p].outcome)) =>
                    inv[p].envelope.success
        /\ (Ran(p, "get_alert_events") /\ inv[p].args.limit > 10) =>
              /\ HasSent(p)
              /\ SentParams(p)["limit"] = PyInt(10)
              /\ (Done(p) /\ GoodResponse(inv[p].outcome)) =>
                    inv[p].envelope.success

\* C6 witness: list_alerts asked for 1000 per page and returned a success.
OversizePageServed ==
    \E p \in DOMAIN inv :
        /\ Done(p)
        /\ inv[p].name = "list_alerts"
        /\ inv[p].args.page_size = 1000
        /\ HasSent(p)
        /\ SentParams(p)["limit"] = PyInt(50)
        /\ inv[p].envelope.success

\* C7 as stated: every list operation sends its request whatever size was
\* asked for, with a limit between 1 and the documented maximum.
AnySizeClamped ==
    \A p \in DOMAIN inv :
        /\ (Ran(p, "list_alerts")
            /\ TypeAndSubtypesValid(inv[p].args) /\ CursorValid(inv[p].args)) =>
              /\ HasSent(p)
              /\ SentParams(p)["limit"].v \in 1..50
        /\ Ran(p, "list_alert_comments") =>
              /\ HasSent(p)
              /\ SentParams(p)["limit"].v >= 1
        /\ Ran(p, "get_alert_events") =>
              /\ HasSent(p)
              /\ SentParams(p)["limit"].v \in 1..10

\* C7 amended: list_alerts and get_alert_events reject a size below 1 with
\* a failure envelope naming the constraint and send nothing; with a size of
\* at least 1 (and, for list_alerts, arguments that pass its other checks)
\* they send the request with limit = min(size, maximum), the maximum being
\* 50 and 10; list_alert_comments always sends the limit it was given,
\* unchanged.
SizeClampedOrRejected ==
    \A p \in DOMAIN inv :
        /\ Ran(p, "list_alerts") =>
              /\ inv[p].args.page_size < 1 =>
                    /\ Done(p)
                    /\ inv[p].sent = <<>>
                    /\ inv[p].envelope =
                          Failure(<<"Failed to fetch alerts: ",
                                    "page_size must be greater than 0">>)
              /\ (inv[p].args.page_size >= 1
                  /\ TypeAndSubtypesValid(inv[p].args)
                  /\ CursorValid(inv[p].args)) => HasSent(p)
              /\ HasSent(p) =>
                    SentParams(p)["limit"] =
                       PyInt(IF inv[p].args.page_size > 50 THEN 50
                             ELSE inv[p].args.page_size)
        /\ Ran(p, "get_alert_events") =>
              /\ inv[p].args.limit < 1 =>
                    /\ Done(p)
                    /\ inv[p].sent = <<>>
                    /\ inv[p].envelope =
                          Failure(<<"Failed to fetch alert events: ",
                                    "limit must be greater than 0">>)
              /\ inv[p].args.limit >= 1 =>
                    /\ HasSent(p)
                    /\ SentParams(p)["limit"] =
                          PyInt(IF inv[p].args.limit > 10 THEN 10
                                ELSE inv[p].args.limit)
        /\ Ran(p, "list_alert_comments") =>
              /\ HasSent(p)
              /\ SentParams(p)["limit"] = PyInt(inv[p].args.limit)

\* C7 witness: list_alerts asked for 0 per page and returned a failure
\* without sending.
UndersizePageRejected ==
    \E p \in DOMAIN inv :
        /\ Done(p)
        /\ Ran(p, "list_alerts")
        /\ inv[p].args.page_size = 0
        /\ inv[p].sent = <<>>
        /\ IsFailureEnvelope(inv[p].envelope)

\* C8: a list_alerts request carries exactly one required filter: with a
\* detection_id (a non-empty one) it has detection-id and neither
\* created-after nor created-before, whatever dates were passed; otherwise
\* it has both dates, each the one passed or else today's, and no
\* detection-id.
RequiredFilterExclusive ==
    \A p \in DOMAIN inv :
        (Ran(p, "list_alerts") /\ HasSent(p)) =>
            LET a == inv[p].args
                keys == DOMAIN SentParams(p)
            IN  IF Truthy(a.detection_id)
                THEN /\ "detection-id" \in keys
                     /\ SentParams(p)["detection-id"] = a.detection_id
                     /\ "created-after" \notin keys
                     /\ "created-before" \notin keys
                ELSE /\ "detection-id" \notin keys
                     /\ "created-after" \in keys
                     /\ "created-before" \in keys
                     /\ SentParams(p)["created-after"] =
                           (IF Truthy(a.start_date) THEN a.start_date
                            ELSE PyStr("today 00:00:00Z"))
                     /\ SentParams(p)["created-before"] =
                           (IF Truthy(a.end_date) THEN a.end_date
                            ELSE PyStr("today 23:59:59Z"))

\* C8 witness: a request went out for detection_id "d-1" although both
\* dates were passed too.
DetectionIdWithDatesSent ==
    \E p \in DOMAIN inv :
        /\ Ran(p, "list_alerts")
        /\ HasSent(p)
        /\ inv[p].args.detection_id = PyStr("d-1")
        /\ Truthy(inv[p].args.start_date)
        /\ Truthy(inv[p].args.end_date)
        /\ "created-after" \notin DOMAIN SentParams(p)

\* an error was raised while the invocation ran: by an argument check, by
\* the client call, or by reading the response
ErrorRaised(p) ==
    \/ IsRaise(Prepare(inv[p].name, inv[p].args))
    \/ /\ Len(inv[p].sent) > 0
       /\ LET call == ClientCall(inv[p].sent[1].expected_codes, inv[p].outcome)
          IN  \/ IsRaise(call)
              \/ IsRaise(Shape(inv[p].name, inv[p].args, call.body, call.status))

\* C9: an operation that ran hands its caller an envelope, never an
\* exception; when an error was raised on the way the envelope is a failure
\* with the operation's message and nothing read from the response.
NoExceptionEscapes ==
    \A p \in DOMAIN inv :
        (Done(p) /\ inv[p].executed) =>
            /\ IsReturn(inv[p].result)
            /\ ErrorRaised(p) =>
                  /\ IsFailureEnvelope(inv[p].result.ret)
                  /\ inv[p].result.ret.message[1] = ErrorPrefix(inv[p].name)

\* C9 witness: add_alert_comment ended in a failure envelope after the
\* transport failed.
TransportErrorEnveloped ==
    \E p \in DOMAIN inv :
        /\ Done(p)
        /\ inv[p].name = "add_alert_comment"
        /\ HasSent(p)
        /\ inv[p].outcome.kind = "transport"
        /\ IsFailureEnvelope(inv[p].envelope)

\* the messages of the constraints list_alerts' arguments violate
ViolatedConstraints(a) ==
    (IF a.page_size < 1 THEN {"page_size must be greater than 0"} ELSE {})
    \cup (IF a.alert_type \notin {"ALERT", "DETECTION_ERROR", "SYSTEM_ERROR"}
          THEN {"alert_type must be one of "} ELSE {})
    \cup (IF a.alert_type = "SYSTEM_ERROR" /\ Len(a.subtypes.v) > 0
          THEN {"subtypes are not allowed when alert_type is SYSTEM_ERROR"}
          ELSE {})
    \cup (IF a.alert_type \in {"ALERT", "DETECTION_ERROR"}
             /\ ~TypeAndSubtypesValid(a)
          THEN {"Invalid subtypes "} ELSE {})

\* C10: list_alerts with an alert_type outside its three values, a subtype
\* its alert_type does not allow or any subtype with SYSTEM_ERROR, and
\* update_alert_status with a status outside its four values, return a
\* failure whose message names a violated constraint, send no request and
\* open no client.
ConstraintViolationRejected ==
    \A p \in DOMAIN inv :
        /\ (Ran(p, "list_alerts") /\ ~TypeAndSubtypesValid(inv[p].args)) =>
              /\ Done(p)
              /\ inv[p].sent = <<>>
              /\ inv[p].opened = 0
              /\ p \notin openClients
              /\ IsFailureEnvelope(inv[p].envelope)
              /\ inv[p].envelope.message[1] = "Failed to fetch alerts: "
              /\ inv[p].envelope.message[2] \in ViolatedConstraints(inv[p].args)
        /\ (Ran(p, "update_alert_status")
            /\ inv[p].args.status \notin {"OPEN", "TRIAGED", "RESOLVED", "CLOSED"}) =>
              /\ Done(p)
              /\ inv[p].sent = <<>>
              /\ inv[p].opened = 0
              /\ p \notin openClients
              /\ IsFailureEnvelope(inv[p].envelope)
              /\ inv[p].envelope.message[1] = "Failed to update alert status: "
              /\ inv[p].envelope.message[2] = "Status must be one of "

\* C10 witness: update_alert_status to "DONE" returned a failure without
\* sending.
InvalidStatusRejected ==
    \E p \in DOMAIN inv :
        /\ Done(p)
        /\ Ran(p, "update_alert_status")
        /\ inv[p].args.status = "DONE"
        /\ inv[p].sent = <<>>
        /\ IsFailureEnvelope(inv[p].envelope)

\* C11: a caller holds a client exactly while its invocation is inside the
\* client scope (the call is awaited or has just returned or raised); once
\* the invocation has returned its envelope, whether after a success, after
\* the 404 return inside the scope of get_alert_events or after an error of
\* the call, its client is no longer held, and a caller that is still inside
\* its scope keeps its own client whatever the other callers do.
ClientReleasedOnExit ==
    /\ openClients = {p \in DOMAIN inv : inv[p].pc \in {"awaiting", "closing"}}
    /\ \A p \in DOMAIN inv :
          /\ Started(p) => inv[p].opened <= 1
          /\ Done(p) => p \notin openClients

\* C11 witness: get_alert_events answered 404 has returned from inside its
\* client scope and holds no client, while another invocation in flight
\* still holds the client it acquired.
EarlyReturnReleasedWhileOtherHolds ==
    \E p, q \in DOMAIN inv :
        /\ p # q
        /\ Done(p)
        /\ Ran(p, "get_alert_events")
        /\ HasSent(p)
        /\ inv[p].outcome.kind = "http"
        /\ inv[p].outcome.status = 404
        /\ IsFailureEnvelope(inv[p].envelope)
        /\ p \notin openClients
        /\ inv[q].pc = "awaiting"
        /\ q \in openClients

\* the status each operation is documented to succeed on
SuccessCode(name) ==
    IF name \in {"update_alert_status", "update_alert_assignee"}
    THEN 204 ELSE 200

\* what a failure message reports for a status the operation expects but
\* does not succeed on
NotFoundTexts ==
    {"No alert found with ID: ", "Alert not found: ",
     "One or more alerts not found: "}
BadRequestTexts ==
    {"Bad request when fetching alerts",
     "Bad request when fetching alert ID: ",
     "Bad request when fetching comments for alert ID: ",
     "Bad request when updating alert status: ",
     "Bad request when adding comment to alert ",
     "Bad request when updating alert assignee: "}

\* the invocation of p sent its request and the remote answered with status
Answered(p, status) ==
    /\ Done(p)
    /\ inv[p].name \in AlertsToolNames
    /\ HasSent(p)
    /\ inv[p].outcome.kind = "http"
    /\ inv[p].outcome.status = status

\* C12: an operation that sent its request returns success=true only when
\* the remote status is its success code (204 for update_alert_status and
\* update_alert_assignee, 200 for the others); a 400 or 404 of its expected
\* list yields a failure whose message reports the bad request or the
\* missing alert; and on 204 the two PATCH operations return exactly the
\* caller's alert_ids as alerts, whatever the body holds.
StatusBranching ==
    \A p \in DOMAIN inv :
        (Done(p) /\ inv[p].name \in AlertsToolNames /\ HasSent(p)) =>
            /\ inv[p].envelope.success = TRUE =>
                  Answered(p, SuccessCode(inv[p].name))
            /\ \A st \in ExpectedStatuses(inv[p].name) \ {SuccessCode(inv[p].name)} :
                  Answered(p, st) =>
                      /\ IsFailureEnvelope(inv[p].envelope)
                      /\ st = 404 => inv[p].envelope.message[1] \in NotFoundTexts
                      /\ st = 400 => inv[p].envelope.message[1] \in BadRequestTexts
            /\ (Answered(p, 204) /\ SuccessCode(inv[p].name) = 204) =>
                  inv[p].envelope =
                      [success |-> TRUE, alerts |-> PyList(inv[p].args.alert_ids)]

\* C12 witness: update_alert_assignee answered 204 with a body that is not
\* a dict has returned the caller's alert_ids as a success.
NoContentPatchReturnedIds ==
    \E p \in DOMAIN inv :
        /\ Answered(p, 204)
        /\ inv[p].name = "update_alert_assignee"
        /\ inv[p].outcome.body = PyStr("<html>")
        /\ inv[p].envelope.success = TRUE
        /\ inv[p].envelope.alerts = PyList(inv[p].args.alert_ids)

\* C13: an invocation sends at most one request and opens at most one
\* client, and exactly one once its call has been answered: after a
\* transport error, an unexpected status or a 400 or 404 the request log of
\* the invocation still holds that one request, so add_alert_comment causes
\* at most one POST to /alert-comments.
NoRetry ==
    \A p \in DOMAIN inv :
        Started(p) =>
            /\ Len(inv[p].sent) <= 1
            /\ inv[p].opened <= 1
            /\ (inv[p].pc \in {"closing", "done"} /\ inv[p].opened = 1) =>
                  Len(inv[p].sent) = 1
            /\ Ran(p, "add_alert_comment") =>
                  Cardinality({i \in 1..Len(inv[p].sent) :
                                  /\ inv[p].sent[i].method = "POST"
                                  /\ inv[p].sent[i].path = <<"/alert-comments">>}) <= 1

\* C13 witness: add_alert_comment whose POST failed in transport has
\* returned its failure with one request sent.
CommentFailedAfterOnePost ==
    \E p \in DOMAIN inv :
        /\ Done(p)
        /\ Ran(p, "add_alert_comment")
        /\ inv[p].outcome.kind = "transport"
        /\ IsFailureEnvelope(inv[p].envelope)
        /\ Len(inv[p].sent) = 1
        /\ inv[p].sent[1].method = "POST"
        /\ inv[p].sent[1].path = <<"/alert-comments">>

====
